---- MODULE Spec2Model ----
(***************************************************************************)
(* GitSnapper (src/GitSnapper.py): one interactive session of main() is a  *)
(* sequential state machine.  Every network request is one step whose      *)
(* response is chosen by the environment; the code that runs between two   *)
(* requests is part of the step that follows the earlier request.  The     *)
(* directory {username}/ outlives a session, so the model lets the tool be *)
(* started again on the files an earlier session left.                     *)
(***************************************************************************)
EXTENDS Integers, Sequences, FiniteSets

\* ---------------------------------------------------------------- bounds
MaxTotal == 201         \* largest public_repos value the forge reports
MaxRepos == 2           \* most repository entries the listing pages carry
MaxRuns == 2            \* sessions started one after the other on one disk

\* ------------------------------------------------------ program constants
PerPage == 100          \* per_page default of get_repos_info

VARIABLES
    run,            \* number of the current session
    pc,             \* position of the session in the code
    username,       \* main: username after strip()
    confirm,        \* main: confirm after strip().lower()
    exitCode,       \* exit status of the process, -1 while it runs
    message,        \* last console line that names an outcome
    userReqs,       \* GET /users/{username} requests issued in this session
    user_data,      \* get_total_repos: what that request answered
    total_repos,    \* get_repos_info: total_repos
    pages,          \* get_repos_info: pages
    page,           \* get_repos_info: page
    pageReqs,       \* page numbers of the listing requests issued, in order
    pageFailed,     \* the listing loop left by one of its break statements
    repos_info,     \* value get_repos_info returned
    dlCalled,       \* download_all_repos was called in this session
    i,              \* download_all_repos: i
    successful,     \* download_all_repos: successful
    failed,         \* download_all_repos: failed
    skipped,        \* download_all_repos: skipped
    summary,        \* download_all_repos printed its summary
    fileAtCall,     \* state of zip_path when download_repo_as_zip was entered
    archReqs,       \* branches of the archive requests of the current call
    metaReqs,       \* GET /repos/{username}/{repo} requests of the current call
    metaSeen,       \* what the metadata lookup of the current call answered
    response,       \* download_repo_as_zip: response.status_code
    body,           \* what became of the body of the current call's response
    ret,            \* value download_repo_as_zip returned
    disk            \* state of {username}/{name}.zip for every repository name

vars == << run, pc, username, confirm, exitCode, message, userReqs, user_data,
           total_repos,
           pages, page, pageReqs, pageFailed, repos_info, dlCalled, i, successful,
           failed, skipped, summary, fileAtCall, archReqs, metaReqs, metaSeen,
           response, body, ret, disk >>

\* ------------------------------------------------------------ data model
RepoNames == 1..MaxRepos

\* What a path on disk holds: nothing, a sound archive, an archive one of
\* whose entries fails its checksum, bytes that are no ZIP container, or the
\* part of a body that arrived before the write was cut short.
FileKinds == {"absent", "valid", "corruptentry", "badzip", "partial"}

Unset == "<unset>"

\* Python's None and the list, as values of repos_info.
NoneList == [isNone |-> TRUE, items |-> << >>]
List(s) == [isNone |-> FALSE, items |-> s]

\* Python's None and the (success, status, repo_name) tuple, as values of ret.
NoneRet == [isNone |-> TRUE, success |-> FALSE, status |-> "", repo_name |-> 0]
Tuple(ok, st, name) == [isNone |-> FALSE, success |-> ok, status |-> st, repo_name |-> name]

\* str.strip() and str.strip().lower() on the inputs the model types in.
RawUsernames == {"", "  ", "octocat", " octocat "}
Strip(s) == CASE s = "  " -> ""
              [] s = " octocat " -> "octocat"
              [] OTHER -> s

RawAnswers == {"y", "yes", "Y", " Yes ", "n", "no", "", "yeah"}
StripLower(s) == CASE s = "Y" -> "y"
                   [] s = " Yes " -> "yes"
                   [] OTHER -> s

\* ---------------------------------------------------- get_total_repos
\* The answers of GET /users/{username}: a status (0: the request raised a
\* RequestException that is no HTTPError), the body's message and its
\* public_repos.  The forge sends its "Not Found" body with status 404; line
\* 17 also takes it from a 2xx answer.  The body of an answer with an error
\* status is never read (raise_for_status on line 13 comes first).
UserResponses ==
    [status : {200}, message : {"", "Not Found"}, public_repos : 0..MaxTotal]
    \cup [status : {404}, message : {"Not Found"}, public_repos : {0}]
    \cup [status : {500, 0}, message : {""}, public_repos : {0}]

NoUser == [status |-> -1, message |-> "", public_repos |-> 0]

get_total_repos_404_as_zero(r) ==
    IF r.status = 0 THEN 0
    ELSE IF r.status >= 400 THEN 0
    ELSE IF r.message = "Not Found" THEN -1
    ELSE r.public_repos

get_total_repos(r) ==
    IF r.status = 0 THEN 0
    ELSE IF r.status >= 400 THEN (IF r.status = 404 THEN -1 ELSE 0)
    ELSE IF r.message = "Not Found" THEN -1
    ELSE r.public_repos

\* math.ceil(total_repos / per_page)
CeilDivFloor(n, d) == n \div d

CeilDiv(n, d) == (n + d - 1) \div d

\* The process ends with status `code` after printing `msg`.
Exit(code, msg) ==
    /\ pc' = "exited"
    /\ exitCode' = code
    /\ message' = msg

\* main, lines 210-217: read the username; an empty one is fatal.
MainInput ==
    /\ pc = "main"
    /\ \E raw \in RawUsernames :
        /\ username' = Strip(raw)
        /\ IF Strip(raw) = ""
           THEN Exit(1, "Username cannot be empty.")
           ELSE /\ pc' = "get_total"
                /\ UNCHANGED << exitCode, message >>
    /\ UNCHANGED << run, confirm, userReqs, user_data, total_repos, pages, page, pageReqs,
                    pageFailed, repos_info, dlCalled, i, successful, failed,
                    skipped, summary, fileAtCall, archReqs, metaReqs, metaSeen,
                    response, body, ret, disk >>

\* get_repos_info, lines 35-47: the user-metadata request and what follows
\* it up to the first listing request or the return.
GetTotal ==
    /\ pc = "get_total"
    /\ \E r \in UserResponses :
        LET t == get_total_repos(r) IN
        /\ userReqs' = userReqs + 1
        /\ user_data' = r
        /\ total_repos' = t
        /\ IF t = -1
           THEN /\ repos_info' = NoneList
                /\ pc' = "list_ret"
                /\ UNCHANGED << pages, page >>
           ELSE IF t = 0
           THEN /\ repos_info' = List(<< >>)
                /\ pc' = "list_ret"
                /\ UNCHANGED << pages, page >>
           ELSE /\ repos_info' = List(<< >>)
                /\ pages' = CeilDiv(t, PerPage)
                /\ page' = 1
                /\ pc' = IF CeilDiv(t, PerPage) >= 1 THEN "list_page" ELSE "list_ret"
    /\ UNCHANGED << run, username, confirm, exitCode, message, pageReqs, pageFailed,
                    dlCalled, i, successful, failed, skipped, summary, fileAtCall,
                    archReqs, metaReqs, metaSeen, response, body, ret, disk >>

\* The answers of GET /users/{username}/repos: an array of `count` entries,
\* an object carrying a message, a RequestException (raise_for_status
\* included), or any other exception (an entry without "name").
PageResponses ==
    [kind : {"array"}, count : 0..MaxRepos]
    \cup [kind : {"apiError", "requestException", "exception"}, count : {0}]

\* repos_info after the entries of one page were appended: the forge names
\* the repositories of a user apart, here by their position in the listing.
AppendRepos(items, count) ==
    items \o [k \in 1..count |-> Len(items) + k]

\* get_repos_info, lines 48-76: one iteration of the page loop, and the
\* return when the loop ends or breaks.
ListPage ==
    /\ pc = "list_page"
    /\ \E r \in PageResponses :
        /\ Len(repos_info.items) + r.count <= MaxRepos
        /\ pageReqs' = Append(pageReqs, page)
        /\ IF r.kind = "array"
           THEN /\ repos_info' = List(AppendRepos(repos_info.items, r.count))
                /\ pageFailed' = FALSE
                /\ IF page < pages
                   THEN /\ page' = page + 1
                        /\ pc' = "list_page"
                   ELSE /\ page' = page
                        /\ pc' = "list_ret"
           ELSE /\ pageFailed' = TRUE
                /\ pc' = "list_ret"
                /\ UNCHANGED << repos_info, page >>
    /\ UNCHANGED << run, username, confirm, exitCode, message, userReqs, user_data, total_repos,
                    pages, dlCalled, i, successful, failed, skipped, summary,
                    fileAtCall, archReqs, metaReqs, metaSeen, response, body, ret, disk >>

\* main, lines 218-234: get_repos_info has returned (its locals are gone);
\* no user and no repositories each end the session.
MainCheckList ==
    /\ pc = "list_ret"
    /\ IF repos_info.isNone
       THEN Exit(1, "User does not exist on GitHub.")
       ELSE IF repos_info.items = << >>
       THEN Exit(1, "User has no public repositories.")
       ELSE /\ pc' = "confirm"
            /\ UNCHANGED << exitCode, message >>
    /\ user_data' = NoUser
    /\ total_repos' = 0
    /\ pages' = 0
    /\ page' = 0
    /\ UNCHANGED << run, username, confirm, userReqs, pageReqs, pageFailed,
                    repos_info, dlCalled, i, successful, failed, skipped, summary,
                    fileAtCall, archReqs, metaReqs, metaSeen, response, body, ret, disk >>

\* main, line 239: confirm in ['y', 'yes']
ConfirmedUnlessN(answer) == answer # "n"

Confirmed(answer) == answer \in {"y", "yes"}

\* main, lines 237-244, and download_all_repos, lines 167-175: the answer to
\* the confirmation prompt; a yes calls download_all_repos, which sets its
\* counters and enters its loop.
Confirm ==
    /\ pc = "confirm"
    /\ \E raw \in RawAnswers :
        /\ confirm' = StripLower(raw)
        /\ IF ~Confirmed(StripLower(raw))
           THEN /\ Exit(0, "Download cancelled by user.")
                /\ UNCHANGED << dlCalled, i, successful, failed, skipped >>
           ELSE /\ dlCalled' = TRUE
                /\ IF repos_info.items = << >>
                   THEN /\ Exit(0, "No repositories found to download.")
                        /\ UNCHANGED << i, successful, failed, skipped >>
                   ELSE /\ successful' = 0
                        /\ failed' = 0
                        /\ skipped' = 0
                        /\ i' = 1
                        /\ pc' = "dl_start"
                        /\ UNCHANGED << exitCode, message >>
    /\ UNCHANGED << run, username, userReqs, user_data, total_repos, pages, page, pageReqs,
                    pageFailed, repos_info, summary, fileAtCall, archReqs, metaReqs,
                    metaSeen, response, body, ret, disk >>

\* ------------------------------------------------ download_repo_as_zip
\* The repository the loop of download_all_repos is at.
repo_name == repos_info.items[i]

NoMeta == [status |-> -1, default_branch |-> ""]

\* line 86: os.path.exists(zip_path)
ExistsOnlyIfValid(d, name) == d[name] = "valid"

Exists(d, name) == d[name] # "absent"

\* lines 79-93: the presence check that makes a second run skip the file.
DlStart ==
    /\ pc = "dl_start"
    /\ fileAtCall' = disk[repo_name]
    /\ archReqs' = << >>
    /\ metaReqs' = 0
    /\ metaSeen' = NoMeta
    /\ response' = 0
    /\ body' = Unset
    /\ IF Exists(disk, repo_name)
       THEN /\ ret' = Tuple(TRUE, "Already exists", repo_name)
            /\ message' = "Skipping already downloaded"
            /\ pc' = "dl_ret"
       ELSE /\ ret' = NoneRet
            /\ message' = "Downloading"
            /\ pc' = "req_main"
    /\ UNCHANGED << run, username, confirm, exitCode, userReqs, user_data, total_repos, pages,
                    page, pageReqs, pageFailed, repos_info, dlCalled, i, successful,
                    failed, skipped, summary, disk >>

\* The answers of an archive request: a status, or 0 when requests.get
\* raises a RequestException (timeout, connection failure).
ArchiveAnswers == {200, 404, 500, 0}

\* lines 90 and 100: the branch names tried before the metadata lookup.
FirstBranch == "main"

SecondBranchMainAgain == "main"

SecondBranch == "master"

\* line 110: repo_data.get("default_branch", "main")
DefaultBranchOrMaster(meta) ==
    IF meta.default_branch = "" THEN "master" ELSE meta.default_branch

DefaultBranch(meta) ==
    IF meta.default_branch = "" THEN "main" ELSE meta.default_branch

\* The function returns `r` to the loop of download_all_repos.
Return(r, msg) ==
    /\ ret' = r
    /\ message' = msg
    /\ pc' = "dl_ret"

\* lines 114 and 152-161: response.raise_for_status() on the last response,
\* then either the body is written or the HTTPError is reported.
RaiseForStatus(status) ==
    IF status = 404
    THEN Return(Tuple(FALSE, "Not found", repo_name), "Repository not found or empty")
    ELSE IF status >= 400
    THEN Return(Tuple(FALSE, "HTTP Error", repo_name), "HTTP Error")
    ELSE /\ pc' = "write"
         /\ UNCHANGED << ret, message >>

\* One archive request for `branch`; a 404 answer goes on at `on404` when
\* the code has a further candidate there, every other answer ends the chain.
ArchiveRequest(branch, on404) ==
    \E s \in ArchiveAnswers :
        /\ archReqs' = Append(archReqs, [branch |-> branch, status |-> s])
        /\ IF s = 0
           THEN /\ Return(Tuple(FALSE, "Network Error", repo_name), "Network Error")
                /\ UNCHANGED response
           ELSE /\ response' = s
                /\ IF s = 404 /\ on404 # ""
                   THEN /\ pc' = on404
                        /\ UNCHANGED << ret, message >>
                   ELSE RaiseForStatus(s)

\* line 96
ReqMain ==
    /\ pc = "req_main"
    /\ ArchiveRequest(FirstBranch, "req_master")
    /\ UNCHANGED << run, username, confirm, exitCode, userReqs, user_data, total_repos, pages,
                    page, pageReqs, pageFailed, repos_info, dlCalled, i, successful,
                    failed, skipped, summary, fileAtCall, metaReqs, metaSeen, disk, body >>

\* lines 99-101
ReqMaster ==
    /\ pc = "req_master"
    /\ ArchiveRequest(SecondBranch, "req_meta")
    /\ UNCHANGED << run, username, confirm, exitCode, userReqs, user_data, total_repos, pages,
                    page, pageReqs, pageFailed, repos_info, dlCalled, i, successful,
                    failed, skipped, summary, fileAtCall, metaReqs, metaSeen, disk, body >>

\* The answers of GET /repos/{username}/{repo}: a status (0: the request
\* raised) and the body's default_branch ("": the field is missing).
MetaAnswers ==
    [status : {200}, default_branch : {"develop", "main", ""}]
    \cup [status : {404, 500, 0}, default_branch : {""}]

\* lines 104-111: the metadata lookup; only a 200 answer leads to a third
\* archive request, any other leaves `response` the 404 of "master".
ReqMeta ==
    /\ pc = "req_meta"
    /\ \E m \in MetaAnswers :
        /\ metaReqs' = metaReqs + 1
        /\ metaSeen' = m
        /\ IF m.status = 0
           THEN Return(Tuple(FALSE, "Network Error", repo_name), "Network Error")
           ELSE IF m.status = 200
           THEN /\ pc' = "req_default"
                /\ UNCHANGED << ret, message >>
           ELSE RaiseForStatus(response)
    /\ UNCHANGED << run, username, confirm, exitCode, userReqs, user_data, total_repos, pages,
                    page, pageReqs, pageFailed, repos_info, dlCalled, i, successful,
                    failed, skipped, summary, fileAtCall, archReqs, response, body, disk >>

\* lines 111-114
ReqDefault ==
    /\ pc = "req_default"
    /\ ArchiveRequest(DefaultBranch(metaSeen), "")
    /\ UNCHANGED << run, username, confirm, exitCode, userReqs, user_data, total_repos, pages,
                    page, pageReqs, pageFailed, repos_info, dlCalled, i, successful,
                    failed, skipped, summary, fileAtCall, metaReqs, metaSeen, disk, body >>

\* What lines 116-134 make of a 2xx response: the whole body lands on disk
\* (a sound archive, one with an entry that fails its check, or bytes that
\* are no ZIP container), the stream breaks after open() created the file,
\* the write itself fails, or an exception precedes open().
WriteOutcomes ==
    {"valid", "corruptentry", "badzip", "streamBroken", "writeFailed", "notOpened"}

\* lines 116-134 and 159-164
Write ==
    /\ pc = "write"
    /\ \E w \in WriteOutcomes :
        /\ body' = w
        /\ CASE w = "notOpened" ->
                   /\ Return(Tuple(FALSE, "Error", repo_name), "Error downloading")
                   /\ UNCHANGED disk
             [] w = "streamBroken" ->
                   /\ disk' = [disk EXCEPT ![repo_name] = "partial"]
                   /\ Return(Tuple(FALSE, "Network Error", repo_name), "Network Error")
             [] w = "writeFailed" ->
                   /\ disk' = [disk EXCEPT ![repo_name] = "partial"]
                   /\ Return(Tuple(FALSE, "Error", repo_name), "Error downloading")
             [] OTHER ->
                   /\ disk' = [disk EXCEPT ![repo_name] = w]
                   /\ pc' = "validate"
                   /\ UNCHANGED << ret, message >>
    /\ UNCHANGED << run, username, confirm, exitCode, userReqs, user_data, total_repos,
                    pages, page, pageReqs, pageFailed, repos_info, dlCalled, i,
                    successful, failed, skipped, summary, fileAtCall, archReqs,
                    metaReqs, metaSeen, response >>

\* line 149: os.remove(zip_path)
RemoveNothing(d, name) == d

Remove(d, name) == [d EXCEPT ![name] = "absent"]

\* lines 136-150: ZipFile() raises BadZipFile on bytes that are no container;
\* testzip() names the first entry that fails its check.  The branch that
\* prints the warning has no return statement: control leaves the with and
\* both try blocks and the function ends, returning None.
Validate ==
    /\ pc = "validate"
    /\ CASE disk[repo_name] = "badzip" ->
                /\ disk' = Remove(disk, repo_name)
                /\ Return(Tuple(FALSE, "Invalid ZIP", repo_name), "Invalid ZIP file")
         [] disk[repo_name] = "corruptentry" ->
                /\ Return(NoneRet, "Warning: ZIP file may be corrupted")
                /\ UNCHANGED disk
         [] OTHER ->
                /\ Return(Tuple(TRUE, "Success", repo_name), "Downloaded")
                /\ UNCHANGED disk
    /\ UNCHANGED << run, username, confirm, exitCode, userReqs, user_data, total_repos,
                    pages, page, pageReqs, pageFailed, repos_info, dlCalled, i,
                    successful, failed, skipped, summary, fileAtCall, archReqs,
                    metaReqs, metaSeen, response, body >>

\* ---------------------------------------------------- download_all_repos
\* lines 181-202, and 252-254: the tuple is unpacked and counted, then the
\* loop goes to the next repository or prints the summary.  Unpacking None
\* raises TypeError, which nothing below the handler of __main__ catches.
LoopStep ==
    /\ pc = "dl_ret"
    /\ IF ret.isNone
       THEN /\ Exit(1, "Unexpected error")
            /\ UNCHANGED << i, successful, failed, skipped, summary >>
       ELSE /\ skipped' = IF ret.status = "Already exists" THEN skipped + 1 ELSE skipped
            /\ successful' = IF ret.status # "Already exists" /\ ret.success
                             THEN successful + 1 ELSE successful
            /\ failed' = IF ret.status # "Already exists" /\ ~ret.success
                         THEN failed + 1 ELSE failed
            /\ IF i < Len(repos_info.items)
               THEN /\ i' = i + 1
                    /\ pc' = "dl_start"
                    /\ UNCHANGED << exitCode, message, summary >>
               ELSE /\ summary' = TRUE
                    /\ Exit(0, "DOWNLOAD COMPLETED")
                    /\ UNCHANGED i
    /\ UNCHANGED << run, username, confirm, userReqs, user_data, total_repos, pages,
                    page, pageReqs, pageFailed, repos_info, dlCalled, fileAtCall,
                    archReqs, metaReqs, metaSeen, response, body, ret, disk >>

\* The tool is started again: a new process, the same directory.
Restart ==
    /\ pc = "exited"
    /\ run < MaxRuns
    /\ run' = run + 1
    /\ pc' = "main"
    /\ username' = Unset
    /\ confirm' = Unset
    /\ exitCode' = -1
    /\ message' = ""
    /\ userReqs' = 0
    /\ user_data' = NoUser
    /\ total_repos' = 0
    /\ pages' = 0
    /\ page' = 0
    /\ pageReqs' = << >>
    /\ pageFailed' = FALSE
    /\ repos_info' = NoneList
    /\ dlCalled' = FALSE
    /\ i' = 0
    /\ successful' = 0
    /\ failed' = 0
    /\ skipped' = 0
    /\ summary' = FALSE
    /\ fileAtCall' = "absent"
    /\ archReqs' = << >>
    /\ metaReqs' = 0
    /\ metaSeen' = NoMeta
    /\ response' = 0
    /\ body' = Unset
    /\ ret' = NoneRet
    /\ UNCHANGED disk

Init ==
    /\ run = 1
    /\ pc = "main"
    /\ username = Unset
    /\ confirm = Unset
    /\ exitCode = -1
    /\ message = ""
    /\ userReqs = 0
    /\ user_data = NoUser
    /\ total_repos = 0
    /\ pages = 0
    /\ page = 0
    /\ pageReqs = << >>
    /\ pageFailed = FALSE
    /\ repos_info = NoneList
    /\ dlCalled = FALSE
    /\ i = 0
    /\ successful = 0
    /\ failed = 0
    /\ skipped = 0
    /\ summary = FALSE
    /\ fileAtCall = "absent"
    /\ archReqs = << >>
    /\ metaReqs = 0
    /\ metaSeen = NoMeta
    /\ response = 0
    /\ body = Unset
    /\ ret = NoneRet
    /\ disk = [n \in RepoNames |-> "absent"]

Next ==
    \/ MainInput
    \/ GetTotal
    \/ ListPage
    \/ MainCheckList
    \/ Confirm
    \/ DlStart
    \/ ReqMain
    \/ ReqMaster
    \/ ReqMeta
    \/ ReqDefault
    \/ Write
    \/ Validate
    \/ LoopStep
    \/ Restart

Spec == Init /\ [][Next]_vars

\* ------------------------------------------------------------------ claims
\* download_repo_as_zip has returned to the loop of download_all_repos.
Returned == pc = "dl_ret"

\* "main" and "master" were both requested and both answered 404.
BothNotFound ==
    /\ Len(archReqs) >= 2
    /\ archReqs[1].status = 404
    /\ archReqs[2].status = 404

\* C1: once download_all_repos was called, the session ends only after every
\* repository of the list was processed once, in order, and the summary was
\* printed, whatever download_repo_as_zip met on any of them.
C1_FailureIsolation ==
    (pc = "exited" /\ dlCalled) =>
        /\ summary
        /\ i = Len(repos_info.items)
        /\ successful + failed + skipped = Len(repos_info.items)

\* C2: a call that finds its destination file on disk issues no request of
\* any kind, leaves the disk as it is and returns "Already exists"; the loop
\* counts that as skipped and as nothing else.
C2_IdempotentRerun ==
    /\ [][(pc = "dl_start" /\ disk[repo_name] # "absent") =>
            /\ pc' = "dl_ret"
            /\ ret' = Tuple(TRUE, "Already exists", repo_name)
            /\ archReqs' = << >>
            /\ metaReqs' = 0
            /\ userReqs' = userReqs
            /\ pageReqs' = pageReqs
            /\ disk' = disk]_vars
    /\ [][(Returned /\ fileAtCall # "absent") =>
            /\ skipped' = skipped + 1
            /\ successful' = successful
            /\ failed' = failed]_vars

C2_Witness ==
    /\ run = 2
    /\ skipped = 1
    /\ ret.status = "Already exists"
    /\ archReqs = << >>
    /\ disk[ret.repo_name] = "valid"

\* C3: the archive requests of one call are "main", then "master", then the
\* default_branch of the metadata, each after 404 answers to all before it;
\* at most three of them and at most one metadata request are issued; with
\* default_branch "develop" after two 404 answers the requests are exactly
\* main, master, develop, and only a 2xx answer to the third gives success.
C3_BranchFallbackOrder ==
    LET n == Len(archReqs) IN
    /\ n <= 3
    /\ metaReqs <= 1
    /\ n >= 1 => archReqs[1].branch = "main"
    /\ n >= 2 => archReqs[2].branch = "master" /\ archReqs[1].status = 404
    /\ n >= 3 => /\ BothNotFound
                 /\ metaReqs = 1
                 /\ metaSeen.default_branch # "" =>
                        archReqs[3].branch = metaSeen.default_branch
    /\ metaReqs = 1 => BothNotFound
    /\ (Returned /\ BothNotFound /\ metaSeen.default_branch = "develop") =>
            /\ [k \in 1..n |-> archReqs[k].branch] = << "main", "master", "develop" >>
            /\ ret.status = "Success" => archReqs[3].status = 200
    /\ (Returned /\ ret.status = "Success") => archReqs[n].status = 200

C3_Witness ==
    /\ Returned
    /\ Len(archReqs) = 3
    /\ archReqs[3] = [branch |-> "develop", status |-> 200]
    /\ ret.status = "Success"

\* C4 as stated: a written body that validation finds corrupt, be it no ZIP
\* container or a container with a corrupt entry, is gone from the disk when
\* the call returns "Invalid ZIP".
C4_CorruptDeleted_Original ==
    (Returned /\ body \in {"badzip", "corruptentry"}) =>
        /\ disk[repo_name] = "absent"
        /\ ret = Tuple(FALSE, "Invalid ZIP", repo_name)

\* C4 amended: a written body that is no ZIP container is gone from the disk
\* when the call returns "Invalid ZIP".
C4_UnparseableDeleted ==
    (Returned /\ body = "badzip") =>
        /\ disk[repo_name] = "absent"
        /\ ret = Tuple(FALSE, "Invalid ZIP", repo_name)

C4_Witness ==
    /\ Returned
    /\ body = "badzip"
    /\ fileAtCall = "absent"
    /\ response = 200
    /\ ret.status = "Invalid ZIP"
    /\ disk[repo_name] = "absent"

\* C5: a user-metadata answer of HTTP 404, or a body whose message is "Not
\* Found", makes get_repos_info return None without a listing request; a
\* user with public_repos = 0 makes it return the empty list.
C5_UserNotFoundDistinct ==
    pc = "list_ret" =>
        /\ (user_data.status = 404 \/ user_data.message = "Not Found") =>
                /\ repos_info = NoneList
                /\ pageReqs = << >>
        /\ (user_data.status = 200 /\ user_data.message = ""
                /\ user_data.public_repos = 0) =>
                /\ repos_info = List(<< >>)
                /\ pageReqs = << >>

C5_Witness ==
    /\ pc = "list_ret"
    /\ user_data.status = 200
    /\ user_data.message = "Not Found"
    /\ user_data.public_repos > 0
    /\ repos_info.isNone

\* k = ceil(n / 100), stated without the code's arithmetic.
IsCeilOfHundredth(k, n) == k * 100 >= n /\ (k - 1) * 100 < n

\* The user-metadata request answered a count of n repositories.
CountReported ==
    /\ pc = "list_ret"
    /\ user_data.status = 200
    /\ user_data.message = ""

\* C6 as stated: the listing requests are pages 1..ceil(n/100), for every n.
C6_PageCount_Original ==
    CountReported =>
        /\ IsCeilOfHundredth(Len(pageReqs), user_data.public_repos)
        /\ pageReqs = [k \in 1..Len(pageReqs) |-> k]

\* C6 amended: the listing requests are pages 1..k in order with k at most
\* ceil(n/100); k is ceil(n/100) when no listing request failed, and the
\* page that failed is the last one requested.
C6_PageCountUnlessBreak ==
    CountReported =>
        /\ pageReqs = [k \in 1..Len(pageReqs) |-> k]
        /\ \E c \in 0..user_data.public_repos :
                /\ IsCeilOfHundredth(c, user_data.public_repos)
                /\ Len(pageReqs) <= c
                /\ ~pageFailed => Len(pageReqs) = c
        /\ pageFailed => Len(pageReqs) >= 1

C6_Witness ==
    /\ CountReported
    /\ user_data.public_repos = 150
    /\ pageReqs = << 1, 2 >>
    /\ ~pageFailed

\* The three conditions under which main downloads.
Gate ==
    /\ username \notin {Unset, ""}
    /\ ~repos_info.isNone
    /\ repos_info.items # << >>
    /\ confirm \in {"y", "yes"}

\* C7: download_all_repos is called, an archive or repository-metadata
\* request is issued and a file is written only behind the gate; an empty
\* username exits non-zero before any request, no user and no repositories
\* exit non-zero with messages of their own, a declined confirmation exits 0.
C7_SessionGating ==
    /\ []((dlCalled \/ archReqs # << >> \/ metaReqs > 0
            \/ pc \in {"dl_start", "req_main", "req_master", "req_meta",
                       "req_default", "write", "validate", "dl_ret"}) => Gate)
    /\ [][disk' # disk => Gate]_vars
    /\ [](pc = "exited" =>
            /\ username = "" =>
                    /\ exitCode = 1
                    /\ message = "Username cannot be empty."
                    /\ userReqs = 0
                    /\ pageReqs = << >>
            /\ (username # "" /\ repos_info.isNone) =>
                    /\ exitCode = 1
                    /\ message = "User does not exist on GitHub."
            /\ (~repos_info.isNone /\ repos_info.items = << >>) =>
                    /\ exitCode = 1
                    /\ message = "User has no public repositories."
            /\ (confirm # Unset /\ confirm \notin {"y", "yes"}) =>
                    /\ exitCode = 0
                    /\ message = "Download cancelled by user."
                    /\ ~dlCalled)

C7_Witness ==
    /\ pc = "exited"
    /\ repos_info.items # << >>
    /\ confirm = "yeah"
    /\ exitCode = 0
    /\ ~dlCalled
    /\ archReqs = << >>

\* C8: a body whose container parses and whose integrity scan names a
\* corrupt entry gets a warning, stays on disk and is reported as a success.
C8_CorruptEntryIsSuccess ==
    (Returned /\ body = "corruptentry") =>
        /\ message = "Warning: ZIP file may be corrupted"
        /\ disk[repo_name] = "corruptentry"
        /\ ret = Tuple(TRUE, "Success", repo_name)

\* The branch of the third archive request C9 expects.
ThirdBranch ==
    IF metaSeen.status = 200 /\ metaSeen.default_branch # ""
    THEN metaSeen.default_branch
    ELSE "main"

\* C9 as stated: after 404 answers to "main" and "master" a third archive
\* request is always issued, whatever status the metadata lookup answers:
\* for default_branch, else for "main".
C9_ThirdRequest_Original ==
    (Returned /\ BothNotFound /\ metaSeen.status # 0) =>
        /\ Len(archReqs) = 3
        /\ archReqs[3].branch = ThirdBranch

\* C9 amended: after 404 answers to "main" and "master" a third archive
\* request is issued exactly when the metadata lookup answers 200, for
\* default_branch, or for "main" when the field is missing; any other status
\* ends the call with "Not found", a failed lookup with "Network Error".
C9_ThirdRequestOnlyAfter200 ==
    (Returned /\ BothNotFound) =>
        /\ metaReqs = 1
        /\ metaSeen.status = 200 =>
                /\ Len(archReqs) = 3
                /\ archReqs[3].branch = ThirdBranch
        /\ metaSeen.status \notin {200, 0} =>
                /\ Len(archReqs) = 2
                /\ ret = Tuple(FALSE, "Not found", repo_name)
        /\ metaSeen.status = 0 =>
                /\ Len(archReqs) = 2
                /\ ret = Tuple(FALSE, "Network Error", repo_name)

C9_Witness ==
    /\ Returned
    /\ BothNotFound
    /\ metaSeen = [status |-> 200, default_branch |-> ""]
    /\ Len(archReqs) = 3
    /\ archReqs[3].branch = "main"

\* C10: a call that found no file and returns a failure leaves no file.
C10_FailureLeavesNoFile ==
    (Returned /\ fileAtCall = "absent" /\ ~ret.isNone /\ ~ret.success) =>
        disk[repo_name] = "absent"
====
